---- MODULE Spec2Model ----
(***************************************************************************)
(* A model of studentUI/student.py: the student registry (save_student,    *)
(* view_student), the upload directory, and the ID-card compositor         *)
(* (generate_idcard, export_png, export_pdf).                              *)
(*                                                                         *)
(* Text values are sequences of one-character strings (<<" ", "1">> is     *)
(* " 1").  A photo payload is a sequence of symbols: "h" a header          *)
(* character, "," the data-URI separator, "I"/"J" one whole base64 quantum *)
(* of image / non-image bytes, "c" a single stray base64 character, "!" a  *)
(* character outside the base64 alphabet.                                  *)
(***************************************************************************)
EXTENDS Integers, Sequences, FiniteSets, TLC

VARIABLES
    students,   \* rows of table students, in rowid order
    files,      \* the upload directory: file name -> file content
    now,        \* int(time.time())
    req,        \* the save_student requests being served, one per worker
    resp        \* the response on its way to the client

vars == <<students, files, now, req, resp>>

\* ------------------------------------------------------------------ bounds
MaxStudents == 2
MaxServed == 1
MaxTime == 1
MaxFaults == 1

Slots == {"w1", "w2"}

\* ------------------------------------------------------------------ text
Whitespace == {" "}

RECURSIVE lstrip(_)
lstrip(s) == IF s # <<>> /\ Head(s) \in Whitespace THEN lstrip(Tail(s)) ELSE s

RECURSIVE rstrip(_)
rstrip(s) ==
    IF s # <<>> /\ s[Len(s)] \in Whitespace
    THEN rstrip(SubSeq(s, 1, Len(s) - 1))
    ELSE s

strip(s) == rstrip(lstrip(s))

Digits == <<"0", "1", "2", "3", "4", "5", "6", "7", "8", "9">>

\* str(n) for 0 <= n <= 99
IntToStr(n) ==
    IF n < 10 THEN <<Digits[n + 1]>>
    ELSE <<Digits[(n \div 10) + 1], Digits[(n % 10) + 1]>>

\* ------------------------------------------------------------------ payloads
FieldNames == {"idno", "lastname", "firstname", "course", "level"}

\* a JSON member: missing, a string, or a value that is not a string
Absent == [kind |-> "absent", val |-> <<>>]
Str(s) == [kind |-> "str", val |-> s]
NonStr == [kind |-> "other", val |-> <<>>]

\* the well-formed payloads submitted, and the malformed ones: one of the
\* first with one member (or two) replaced
GoodPayloads ==
    { [ idno |-> Str(<<"1">>), lastname |-> Str(<<"x">>), firstname |-> Str(<<"f">>),
        course |-> Str(<<"c">>), level |-> Str(<<"3">>),
        photo_data |-> Str(<<"h", ",", "I">>) ],
      [ idno |-> Str(<<"1">>), lastname |-> Str(<<"y", " ">>), firstname |-> Str(<<"f">>),
        course |-> Str(<<"c">>), level |-> Str(<<"3">>),
        photo_data |-> Str(<<"h", ",", "J">>) ],
      [ idno |-> Str(<<" ", "2">>), lastname |-> Str(<<"x">>), firstname |-> Str(<<"f">>),
        course |-> Str(<<"c">>), level |-> Str(<<"3">>),
        photo_data |-> Str(<<"h", ",", "!", "I">>) ] }

BasePayload ==
    [ idno |-> Str(<<"1">>), lastname |-> Str(<<"x">>), firstname |-> Str(<<"f">>),
      course |-> Str(<<"c">>), level |-> Str(<<"3">>),
      photo_data |-> Str(<<"h", ",", "I">>) ]

BadPayloads ==
    { [BasePayload EXCEPT !.idno = Absent],
      [BasePayload EXCEPT !.lastname = Str(<<>>)],
      [BasePayload EXCEPT !.firstname = Absent],
      [BasePayload EXCEPT !.course = Str(<<" ">>)],
      [BasePayload EXCEPT !.level = NonStr],
      [BasePayload EXCEPT !.lastname = Str(<<>>), !.level = NonStr],
      [BasePayload EXCEPT !.photo_data = Absent],
      [BasePayload EXCEPT !.photo_data = Str(<<>>)],
      [BasePayload EXCEPT !.photo_data = Str(<<"h", "I">>)],
      [BasePayload EXCEPT !.photo_data = Str(<<"h", ",", "c">>)],
      [BasePayload EXCEPT !.lastname = Str(<<" ">>), !.photo_data = Str(<<"h", ",", "c">>)] }

Payloads == GoodPayloads \cup BadPayloads

\* data.get(k, "")
GetField(data, k) == IF data[k].kind = "absent" THEN Str(<<>>) ELSE data[k]

\* ------------------------------------------------------------------ base64
B64Quanta == {"I", "J"}
B64Alphabet == B64Quanta \cup {"c"}

IsQuantum(x) == x \in B64Quanta
IsB64(x) == x \in B64Alphabet
IsStray(x) == x = "c"

RECURSIVE IndexOf(_, _, _)
IndexOf(s, x, i) ==
    IF i > Len(s) THEN 0 ELSE IF s[i] = x THEN i ELSE IndexOf(s, x, i + 1)

\* photo_b64.split(",", 1)[1]
AfterComma(s) == SubSeq(s, IndexOf(s, ",", 1) + 1, Len(s))

\* base64.b64decode(encoded): characters outside the alphabet are discarded,
\* then the padding is checked
B64Discard(s) == SelectSeq(s, IsB64)
B64Ok(s) == Len(SelectSeq(B64Discard(s), IsStray)) % 4 = 0
B64Bytes(s) ==
    SelectSeq(B64Discard(s), IsQuantum)
        \o [i \in 1..(Len(SelectSeq(B64Discard(s), IsStray)) \div 4) |-> "J"]

\* PIL can identify the content as an image: image bytes, or a PNG the QR
\* encoder saved
IsImage(bytes) ==
    /\ bytes # <<>>
    /\ \/ \A i \in 1..Len(bytes) : bytes[i] = "I"
       \/ bytes[1] = "QR"

\* ------------------------------------------------------------------ requests
NoName == <<>>
NoCard == <<>>

\* a worker between requests
IdleSlot ==
    [ pc |-> "idle", idno |-> <<>>, lastname |-> <<>>, firstname |-> <<>>,
      course |-> <<>>, level |-> <<>>, image_data |-> <<>>,
      photo_filename |-> NoName, qr_filename |-> NoName ]

\* a response: the handler, the HTTP status, the id it is about (0: none) and
\* the content sent (a file name, a row, a card)
Response(handler, status, id, body) ==
    [handler |-> handler, status |-> status, id |-> id, body |-> body]

NoResp == Response("none", 0, 0, <<>>)

\* jsonify({"status": "error", ...}), 400; an unhandled exception is answered 500
SaveError(status) == Response("save_student", status, 0, <<>>)

\* jsonify({"status": "ok", "id": student_id, "qr_url": ...})
SaveOk(id, qr_filename) == Response("save_student", 200, id, qr_filename)

InFlight == {w \in Slots : req[w].pc # "idle"}

\* save_student up to the decoded photo: the status it returns there (0 when
\* it goes on).  .strip() on a value that is not a string raises.
ParseStatus(data) ==
    IF \E k \in FieldNames : data[k].kind = "other"
    THEN 500
    ELSE
        LET idno == strip(GetField(data, "idno").val)
            lastname == strip(GetField(data, "lastname").val)
            firstname == strip(GetField(data, "firstname").val)
            course == strip(GetField(data, "course").val)
            level == strip(GetField(data, "level").val)
            photo_b64 == data.photo_data
        IN  IF ~(idno # <<>> /\ lastname # <<>> /\ firstname # <<>>
                 /\ course # <<>> /\ level # <<>>)
            THEN 400
            ELSE IF photo_b64.kind = "absent" \/ photo_b64.val = <<>>
                    \/ IndexOf(photo_b64.val, ",", 1) = 0
            THEN 400
            ELSE IF ~B64Ok(AfterComma(photo_b64.val))
            THEN 400
            ELSE 0

\* the locals of save_student once the payload is read and the photo decoded
ParsedSlot(data) ==
    [ IdleSlot EXCEPT
        !.pc = "photo",
        !.idno = strip(GetField(data, "idno").val),
        !.lastname = strip(GetField(data, "lastname").val),
        !.firstname = strip(GetField(data, "firstname").val),
        !.course = strip(GetField(data, "course").val),
        !.level = strip(GetField(data, "level").val),
        !.image_data = B64Bytes(AfterComma(data.photo_data.val)) ]

\* f"{idno}_photo_{int(time.time())}.jpg"
PhotoFilename(idno, t) == idno \o <<"_photo_">> \o IntToStr(t) \o <<".jpg">>

\* f"{idno}_qr_{int(time.time())}.png"
QrFilename(idno, t) == idno \o <<"_qr_">> \o IntToStr(t) \o <<".png">>

\* url_for("view_student", idno=idno, _external=True)
QrUrl(idno) == <<"/student/">> \o idno

\* the PNG the QR encoder saves for a payload string
QrImage(url) == <<"QR">> \o url

\* open(path, "wb") and a write: the file is created, or replaced
WriteFile(name, content) == (name :> content) @@ files

\* the id AUTOINCREMENT gives the next row
RECURSIVE MaxId(_)
MaxId(rows) ==
    IF rows = <<>> THEN 0
    ELSE LET m == MaxId(Tail(rows))
         IN  IF Head(rows).id > m THEN Head(rows).id ELSE m

NextRowId == MaxId(students) + 1

NewRow(slot) ==
    [ id |-> NextRowId, idno |-> slot.idno, lastname |-> slot.lastname,
      firstname |-> slot.firstname, course |-> slot.course, level |-> slot.level,
      photo_path |-> slot.photo_filename, qr_path |-> slot.qr_filename ]

\* variant, not the code: INSERT OR REPLACE under a unique idno: the row of the same idno goes
InsertRow_replace(slot) ==
    Append(SelectSeq(students, LAMBDA r : r.idno # slot.idno), NewRow(slot))

\* INSERT INTO students ...; commit
InsertRow(slot) == Append(students, NewRow(slot))

\* the asset files the rows name
Referenced ==
    {students[i].photo_path : i \in 1..Len(students)}
        \cup {students[i].qr_path : i \in 1..Len(students)}

\* the asset files the rows name that are not in the upload directory
Missing == Referenced \ DOMAIN files

\* the files of the upload directory that no row and no running request names
Orphans ==
    DOMAIN files \ (Referenced \cup {req[w].photo_filename : w \in Slots}
                               \cup {req[w].qr_filename : w \in Slots})

\* ------------------------------------------------------------------ save_student
\* lines 67-86 on a payload the handler turns down (or that makes it raise)
Reject(w, data) ==
    /\ req[w].pc = "idle"
    /\ resp = NoResp
    /\ ParseStatus(data) # 0
    /\ resp' = SaveError(ParseStatus(data))
    /\ UNCHANGED <<students, files, now, req>>

\* lines 67-86 on a payload the handler goes on with
Receive(w, data) ==
    /\ req[w].pc = "idle"
    /\ resp = NoResp
    /\ ParseStatus(data) = 0
    /\ req' = [req EXCEPT ![w] = ParsedSlot(data)]
    /\ UNCHANGED <<students, files, now, resp>>

\* lines 88-91: write the photo file
WritePhoto(w) ==
    /\ req[w].pc = "photo"
    /\ LET name == PhotoFilename(req[w].idno, now)
       IN  /\ files' = WriteFile(name, req[w].image_data)
           /\ req' = [req EXCEPT ![w] =
                        [req[w] EXCEPT !.pc = "qr", !.photo_filename = name]]
    /\ UNCHANGED <<students, now, resp>>

\* lines 88-91 when open() raises: nothing is written
WritePhotoFails(w) ==
    /\ req[w].pc = "photo"
    /\ req' = [req EXCEPT ![w] = IdleSlot]
    /\ resp' = SaveError(500)
    /\ UNCHANGED <<students, files, now>>

\* lines 96-104: generate the QR image and save it
WriteQr(w) ==
    /\ req[w].pc = "qr"
    /\ LET name == QrFilename(req[w].idno, now)
       IN  /\ files' = WriteFile(name, QrImage(QrUrl(req[w].idno)))
           /\ req' = [req EXCEPT ![w] =
                        [req[w] EXCEPT !.pc = "insert", !.qr_filename = name]]
    /\ UNCHANGED <<students, now, resp>>

\* lines 96-104 when the QR encoder or img.save raises
WriteQrFails(w) ==
    /\ req[w].pc = "qr"
    /\ Cardinality(Orphans) + Cardinality(Missing) < MaxFaults
    /\ req' = [req EXCEPT ![w] = IdleSlot]
    /\ resp' = SaveError(500)
    /\ UNCHANGED <<students, files, now>>

\* lines 107-120: insert the row, commit, answer with the row's id
Insert(w) ==
    /\ req[w].pc = "insert"
    /\ students' = InsertRow(req[w])
    /\ req' = [req EXCEPT ![w] = IdleSlot]
    /\ resp' = SaveOk(NextRowId, req[w].qr_filename)
    /\ UNCHANGED <<files, now>>

\* lines 107-112 when the store raises
InsertFails(w) ==
    /\ req[w].pc = "insert"
    /\ Cardinality(Orphans) + Cardinality(Missing) < MaxFaults
    /\ req' = [req EXCEPT ![w] = IdleSlot]
    /\ resp' = SaveError(500)
    /\ UNCHANGED <<students, files, now>>

\* ------------------------------------------------------------------ environment
Tick ==
    /\ now < MaxTime
    /\ now' = now + 1
    /\ UNCHANGED <<students, files, req, resp>>

\* an asset file of a row is removed from outside
DeleteFile(name) ==
    /\ name \in DOMAIN files \cap Referenced
    /\ Cardinality(Orphans) + Cardinality(Missing) < MaxFaults
    /\ files' = [n \in DOMAIN files \ {name} |-> files[n]]
    /\ UNCHANGED <<students, now, req, resp>>

Init ==
    /\ students = <<>>
    /\ files = <<>>
    /\ now = 0
    /\ req = [w \in Slots |-> IdleSlot]
    /\ resp = NoResp

\* ------------------------------------------------------------------ view_student
RECURSIVE FirstWhere(_, _, _)
FirstWhere(rows, key, value) ==
    IF rows = <<>> THEN <<>>
    ELSE IF Head(rows)[key] = value THEN <<Head(rows)>>
    ELSE FirstWhere(Tail(rows), key, value)

\* SELECT * FROM students WHERE idno=? ... fetchone(): <<>> or <<row>>
FindByIdno(rows, idno) == FirstWhere(rows, "idno", idno)

\* SELECT * FROM students WHERE id=? ... fetchone(): <<>> or <<row>>
FindById(rows, student_id) == FirstWhere(rows, "id", student_id)

\* the page of the row, or the not-found page (both with status 200)
ViewResponse(idno) ==
    LET student == FindByIdno(students, idno)
    IN  IF student = <<>>
        THEN Response("view_student", 200, 0, <<>>)
        ELSE Response("view_student", 200, student[1].id, student)

LookupIdnos == {<<"1">>, <<"2">>, <<" ", "2">>}

\* ------------------------------------------------------------------ generate_idcard
WIDTH == 1100
HEIGHT == 650
details_x == 400
details_y == 160
spacing == 55

\* a file Image.open() is given: not there, an image, or no image
AssetStates == {"absent", "image", "corrupt"}

\* what a call finds outside the store: the two optional assets, and which of
\* the four ImageFont.truetype() calls is the first to raise (0: none)
Envs == [logo : AssetStates, seal : AssetStates, fontFail : 0..4]

TrueType == <<"arialbd.ttf/40", "arialbd.ttf/26", "arial.ttf/26", "arial.ttf/20">>

\* the try block: the roles assigned before the first call that raises
TriedFonts(fontFail) ==
    [i \in 1..4 |-> IF fontFail = 0 \/ i < fontFail THEN TrueType[i] ELSE "unbound"]

\* variant, not the code: the except block gives the default font to the unassigned names only
LoadFonts_perFont(fontFail) ==
    [i \in 1..4 |-> IF TriedFonts(fontFail)[i] = "unbound" THEN "default"
                    ELSE TriedFonts(fontFail)[i]]

\* the except block assigns ImageFont.load_default() to all four names
LoadFonts(fontFail) ==
    IF fontFail = 0 THEN TriedFonts(fontFail) ELSE [i \in 1..4 |-> "default"]

\* one thing drawn on the card
Rect(x, y, w, h, fill) ==
    [op |-> "rectangle", x |-> x, y |-> y, w |-> w, h |-> h, what |-> <<fill>>, font |-> ""]
Text(x, y, string, font) ==
    [op |-> "text", x |-> x, y |-> y, w |-> 0, h |-> 0, what |-> string, font |-> font]
Paste(x, y, w, h, image) ==
    [op |-> "paste", x |-> x, y |-> y, w |-> w, h |-> h, what |-> image, font |-> ""]
Line(x, y, w, h) ==
    [op |-> "line", x |-> x, y |-> y, w |-> w, h |-> h, what |-> <<"black">>, font |-> ""]

\* for label, value in info: two texts, then details_y += spacing
RECURSIVE DrawInfo(_, _, _)
DrawInfo(info, y, fonts) ==
    IF info = <<>> THEN <<>>
    ELSE <<Text(details_x, y, <<Head(info)[1]>>, fonts[2]),
           Text(details_x + 220, y, Head(info)[2], fonts[3])>>
         \o DrawInfo(Tail(info), y + spacing, fonts)

\* the school logo, when os.path.exists(logo_path)
LogoPart(env) ==
    IF env.logo = "absent" THEN <<>>
    ELSE <<Paste(30, 10, 80, 80, <<"school_logo.png">>)>>

\* the seal, when os.path.exists(seal_path)
SealPart(env) ==
    IF env.seal = "absent" THEN <<>>
    ELSE <<Paste(WIDTH - 180, HEIGHT - 190, 120, 120, <<"seal.png">>)>>

\* variant, not the code: the title moves into the logo's place when there is no logo
DrawCard_logoShift(student, photo, qr, env) ==
    LET fonts == LoadFonts(env.fontFail)
        info == << <<"IDNO:", student.idno>>, <<"LASTNAME:", student.lastname>>,
                   <<"FIRSTNAME:", student.firstname>>, <<"PROGRAM:", student.course>>,
                   <<"YEAR LEVEL:", student.level>> >>
    IN  <<Rect(0, 0, WIDTH, 100, "navy")>>
        \o LogoPart(env)
        \o <<Text(IF env.logo = "absent" THEN 30 ELSE 150, 25,
                  <<"UNIVERSITY STUDENT ID CARD">>, fonts[1]),
             Paste(50, 150, 300, 300, photo),
             Paste(WIDTH - 270, 150, 220, 220, qr)>>
        \o DrawInfo(info, details_y, fonts)
        \o <<Line(50, HEIGHT - 150, 300, 0),
             Text(50, HEIGHT - 140, <<"Registrar Signature">>, fonts[3])>>
        \o SealPart(env)
        \o <<Text(400, HEIGHT - 130, <<"VALID UNTIL: 2026">>, fonts[2]),
             Text(50, HEIGHT - 40, <<"Copyright">>, fonts[4])>>

\* the drawing of the card, in order
DrawCard(student, photo, qr, env) ==
    LET fonts == LoadFonts(env.fontFail)
        info == << <<"IDNO:", student.idno>>, <<"LASTNAME:", student.lastname>>,
                   <<"FIRSTNAME:", student.firstname>>, <<"PROGRAM:", student.course>>,
                   <<"YEAR LEVEL:", student.level>> >>
    IN  <<Rect(0, 0, WIDTH, 100, "navy")>>
        \o LogoPart(env)
        \o <<Text(150, 25, <<"UNIVERSITY STUDENT ID CARD">>, fonts[1]),
             Paste(50, 150, 300, 300, photo),
             Paste(WIDTH - 270, 150, 220, 220, qr)>>
        \o DrawInfo(info, details_y, fonts)
        \o <<Line(50, HEIGHT - 150, 300, 0),
             Text(50, HEIGHT - 140, <<"Registrar Signature">>, fonts[3])>>
        \o SealPart(env)
        \o <<Text(400, HEIGHT - 130, <<"VALID UNTIL: 2026">>, fonts[2]),
             Text(50, HEIGHT - 40, <<"Copyright">>, fonts[4])>>

\* Image.open(path) raises: the file is not there, or holds no image
CannotOpenIn(dir, name) == name \notin DOMAIN dir \/ ~IsImage(dir[name])
CannotOpen(name) == CannotOpenIn(files, name)

\* variant, not the code: a blank image stands in for a photo or QR file that cannot be opened
generate_idcard_placeholder(student_id, env) ==
    LET student == FindById(students, student_id)
        photo == IF CannotOpen(student[1].photo_path) THEN <<"blank">>
                 ELSE files[student[1].photo_path]
        qr == IF CannotOpen(student[1].qr_path) THEN <<"blank">>
              ELSE files[student[1].qr_path]
    IN  IF student = <<>> THEN [kind |-> "None", card |-> NoCard]
        ELSE IF env.logo = "corrupt" \/ env.seal = "corrupt"
        THEN [kind |-> "raise", card |-> NoCard]
        ELSE [kind |-> "card", card |-> DrawCard(student[1], photo, qr, env)]

\* None (no such row), an exception (a file Image.open cannot read), or the card
generate_idcard(student_id, env) ==
    LET student == FindById(students, student_id)
    IN  IF student = <<>> THEN [kind |-> "None", card |-> NoCard]
        ELSE IF CannotOpen(student[1].photo_path) \/ CannotOpen(student[1].qr_path)
        THEN [kind |-> "raise", card |-> NoCard]
        ELSE IF env.logo = "corrupt" \/ env.seal = "corrupt"
        THEN [kind |-> "raise", card |-> NoCard]
        ELSE [kind |-> "card",
              card |-> DrawCard(student[1], files[student[1].photo_path],
                                files[student[1].qr_path], env)]

\* export_png: the response
ExportPngResponse(student_id, env) ==
    LET got == generate_idcard(student_id, env)
    IN  IF got.kind = "raise" THEN Response("export_png", 500, student_id, NoCard)
        ELSE IF got.kind = "None" THEN Response("export_png", 404, student_id, NoCard)
        ELSE Response("export_png", 200, student_id, got.card)

\* variant, not the code: the exception of generate_idcard is caught and answered as not found
ExportPdfResponse_swallow(student_id, env) ==
    LET got == generate_idcard(student_id, env)
    IN  IF got.kind = "card" THEN Response("export_pdf", 200, student_id, got.card)
        ELSE Response("export_pdf", 404, student_id, NoCard)

\* export_pdf: the response
ExportPdfResponse(student_id, env) ==
    LET got == generate_idcard(student_id, env)
    IN  IF got.kind = "raise" THEN Response("export_pdf", 500, student_id, NoCard)
        ELSE IF got.kind = "None" THEN Response("export_pdf", 404, student_id, NoCard)
        ELSE Response("export_pdf", 200, student_id, got.card)

\* ------------------------------------------------------------------ read requests
\* view_student
ViewStudent(idno) ==
    /\ resp = NoResp
    /\ resp' = ViewResponse(idno)
    /\ UNCHANGED <<students, files, now, req>>

\* export_png
ExportPng(student_id, env) ==
    /\ resp = NoResp
    /\ resp' = ExportPngResponse(student_id, env)
    /\ UNCHANGED <<students, files, now, req>>

\* export_pdf
ExportPdf(student_id, env) ==
    /\ resp = NoResp
    /\ resp' = ExportPdfResponse(student_id, env)
    /\ UNCHANGED <<students, files, now, req>>

\* the client has the response; the next request is read after that
Sent ==
    /\ resp # NoResp
    /\ resp' = NoResp
    /\ UNCHANGED <<students, files, now, req>>

\* ------------------------------------------------------------------ specifications
\* registrations are taken while fewer than `cap` rows are stored or under way
Admit(cap) == Len(students) + Cardinality(InFlight) < cap

\* one worker's next step of save_student when nothing fails under it
SaveStep(w, cap) ==
    \/ \E data \in Payloads : Reject(w, data)
    \/ \E data \in Payloads : Admit(cap) /\ Receive(w, data)
    \/ WritePhoto(w)
    \/ WriteQr(w)
    \/ Insert(w)

\* a step of save_student that raises
SaveFails(w) ==
    \/ WritePhotoFails(w)
    \/ WriteQrFails(w)
    \/ InsertFails(w)

\* a view or export request for one of the ids 1..n
ReadStep(n) ==
    \/ \E idno \in LookupIdnos : ViewStudent(idno)
    \/ \E student_id \in 1..n, env \in Envs : ExportPng(student_id, env)
    \/ \E student_id \in 1..n, env \in Envs : ExportPdf(student_id, env)

\* the whole application: the workers serve registrations side by side, the
\* storage may fail under them, files may go, and pages and cards are asked for
Next ==
    \/ \E w \in Slots : SaveStep(w, MaxStudents)
    \/ \E w \in Slots : SaveFails(w)
    \/ Tick
    \/ \E name \in DOMAIN files : DeleteFile(name)
    \/ ReadStep(MaxStudents + 1)
    \/ Sent

Spec == Init /\ [][Next]_vars

\* the registry alone, on a storage that does not fail
NextSave ==
    \/ \E w \in Slots : SaveStep(w, MaxStudents)
    \/ Tick
    \/ Sent

SpecSave == Init /\ [][NextSave]_vars

\* no request is being handled
Quiescent == InFlight = {} /\ resp = NoResp

\* the whole application, its requests served one at a time
NextServe ==
    \/ SaveStep("w1", MaxServed)
    \/ SaveFails("w1")
    \/ Tick
    \/ \E name \in DOMAIN files : DeleteFile(name)
    \/ Quiescent /\ ReadStep(MaxServed + 1)
    \/ Sent

SpecServe == Init /\ [][NextServe]_vars

\* ------------------------------------------------------------------ properties
RowIds(rows) == {rows[i].id : i \in 1..Len(rows)}

\* the row holds the five values the request submitted (trimmed)
SameFields(row, slot) ==
    /\ row.idno = slot.idno
    /\ row.lastname = slot.lastname
    /\ row.firstname = slot.firstname
    /\ row.course = slot.course
    /\ row.level = slot.level

\* worker w returns from save_student in this step
Exits(w) == req[w].pc # "idle" /\ req'[w].pc = "idle"

\* a member of the payload is absent, or empty once trimmed
MissingField(data) ==
    \E k \in FieldNames :
        \/ data[k].kind = "absent"
        \/ data[k].kind = "str" /\ strip(data[k].val) = <<>>

\* the photo payload is absent, or does not decode to an image
BadPhoto(data) ==
    \/ data.photo_data.kind = "absent"
    \/ IndexOf(data.photo_data.val, ",", 1) = 0
    \/ ~B64Ok(AfterComma(data.photo_data.val))
    \/ ~IsImage(B64Bytes(AfterComma(data.photo_data.val)))

\* C1: once save_student has accepted a registration, the lookup of view_student
\* by its idno finds a row with the five values that registration submitted.
C1_LookupReturnsSubmitted ==
    [][\A w \in Slots :
         Insert(w) =>
           LET found == FindByIdno(students', req[w].idno)
           IN  found # <<>> /\ SameFields(found[1], req[w])]_vars

\* C2: whenever save_student returns, it has either written the row and both of
\* its asset files, or written nothing: no row, and no file of its own left in
\* the upload directory.
C2_AllOrNothing ==
    [][\A w \in Slots :
         Exits(w) =>
           \/ /\ Len(students') = Len(students) + 1
              /\ SameFields(students'[Len(students')], req[w])
              /\ students'[Len(students')].photo_path \in DOMAIN files'
              /\ students'[Len(students')].qr_path \in DOMAIN files'
           \/ /\ students' = students
              /\ req[w].photo_filename \notin DOMAIN files'
              /\ req[w].qr_filename \notin DOMAIN files']_vars

\* C3: a payload in which one of the five fields is absent or empty after
\* trimming is answered with status 400, and neither the rows nor the upload
\* directory change.
C3_MissingFieldIs400 ==
    [][\A w \in Slots, data \in Payloads :
         (MissingField(data) /\ (Reject(w, data) \/ Receive(w, data)))
           => (resp'.status = 400 /\ students' = students /\ files' = files)]_vars

\* C4: a registration whose photo payload is absent or does not decode to an
\* image is answered with status 400 before anything is stored, so every row
\* save_student inserts names a photo file the compositor can open.
C4_InsertedPhotoOpens ==
    [][/\ \A w \in Slots, data \in Payloads :
            (BadPhoto(data) /\ (Reject(w, data) \/ Receive(w, data)))
              => resp'.status = 400
       /\ \A w \in Slots :
            Insert(w) => ~CannotOpenIn(files', req[w].photo_filename)]_vars

\* C5: any two rows name different photo files and different QR files.
C5_AssetNamesDistinct ==
    \A i, j \in 1..Len(students) :
        i # j => /\ students[i].photo_path # students[j].photo_path
                 /\ students[i].qr_path # students[j].qr_path

\* the row of this id names a photo or QR file that is not in the directory
MissingAsset(student_id) ==
    LET student == FindById(students, student_id)
    IN  /\ student # <<>>
        /\ \/ student[1].photo_path \notin DOMAIN files
           \/ student[1].qr_path \notin DOMAIN files

IsExport(r) == r.handler \in {"export_png", "export_pdf"}

\* C6: whenever a request can be served, for a row whose photo file or QR file
\* is gone from the upload directory export_png and export_pdf answer with a
\* failure (status 500) and send no card at all, whatever else the call finds.
C6_MissingAssetFailsExport ==
    Quiescent =>
        \A student_id \in RowIds(students), env \in Envs :
            MissingAsset(student_id) =>
                LET png == ExportPngResponse(student_id, env)
                    pdf == ExportPdfResponse(student_id, env)
                IN  /\ png.status = 500
                    /\ png.body = NoCard
                    /\ pdf.status = 500
                    /\ pdf.body = NoCard

\* an export that failed on a row whose asset file had been removed
C6_Witness ==
    /\ IsExport(resp)
    /\ resp.status = 500
    /\ MissingAsset(resp.id)

\* C7: whenever a request can be served, for every id and whatever the call
\* finds, export_png and export_pdf send the same card, and each answers 404
\* exactly when no row has the id.
C7_SameCanvas ==
    Quiescent =>
        \A student_id \in 1..(MaxServed + 1), env \in Envs :
            LET png == ExportPngResponse(student_id, env)
                pdf == ExportPdfResponse(student_id, env)
            IN  /\ png.body = pdf.body
                /\ png.status = 404 <=> FindById(students, student_id) = <<>>
                /\ pdf.status = 404 <=> FindById(students, student_id) = <<>>

\* a PDF export that sent the card export_png sends for the same row
C7_Witness ==
    /\ resp.handler = "export_pdf"
    /\ resp.status = 200
    /\ resp.body # NoCard
    /\ \E env \in Envs : ExportPngResponse(resp.id, env).body = resp.body

\* C8: on a storage that does not fail, every registration that save_student
\* goes on with is answered "ok" with an id no earlier row has and leaves a row
\* with that id and its five values, while every row already stored stays as it
\* is; rows of one idno are no exception.
C8_BothPersisted ==
    [][/\ \A i \in 1..Len(students) :
            i <= Len(students') /\ students'[i] = students[i]
       /\ Cardinality(RowIds(students')) = Len(students')
       /\ \A w \in Slots :
            Exits(w) =>
              /\ resp'.status = 200
              /\ resp'.id \notin RowIds(students)
              /\ \E j \in 1..Len(students') :
                    /\ students'[j].id = resp'.id
                    /\ SameFields(students'[j], req[w])]_vars

\* two rows of one idno, under two ids, each with the values of its own
\* registration
C8_Witness ==
    /\ Len(students) = 2
    /\ students[1].idno = students[2].idno
    /\ students[1].id # students[2].id
    /\ students[1].lastname # students[2].lastname

IsText(o) == o.op = "text"

\* the fonts of the texts of a card, in drawing order
TextFonts(card) ==
    [i \in 1..Len(SelectSeq(card, IsText)) |-> SelectSeq(card, IsText)[i].font]

\* the texts of a card drawn with title, label, value and footer font f[1..4]:
\* the title, five label/value rows, the signature caption, the validity
\* caption, the footer
FontPattern(f) ==
    <<f[1]>> \o [i \in 1..10 |-> IF i % 2 = 1 THEN f[2] ELSE f[3]]
             \o <<f[3], f[2], f[4]>>

\* C9: whenever a request can be served, every card an export sends is drawn
\* either with the four loaded fonts, each in its role, or with the built-in
\* default font in all four roles, whichever of the four loads failed.
C9_FontQuartet ==
    Quiescent =>
        \A student_id \in RowIds(students), env \in Envs :
            LET png == ExportPngResponse(student_id, env)
                used == TextFonts(png.body)
            IN  png.status = 200 =>
                    \/ used = FontPattern(TrueType)
                    \/ used = FontPattern([i \in 1..4 |-> "default"])

\* a card was sent that is drawn with the default font throughout
C9_Witness ==
    /\ IsExport(resp)
    /\ resp.status = 200
    /\ TextFonts(resp.body) = FontPattern([i \in 1..4 |-> "default"])

IsOptional(o) ==
    o.op = "paste" /\ o.what \in {<<"school_logo.png">>, <<"seal.png">>}
IsRequired(o) == ~IsOptional(o)
IsLabel(o) == o.op = "text" /\ o.x = details_x

\* C10: whenever a request can be served, with the logo there or not and the
\* seal there or not, generate_idcard raises nothing and draws everything else
\* where it draws it without them (the five rows 55 apart from 160 down); the
\* logo and the seal are pasted exactly when they are there.
C10_OptionalAssets ==
    Quiescent => \A student_id \in RowIds(students), env \in Envs :
        LET student == FindById(students, student_id)[1]
            got == generate_idcard(student_id, env)
            bare == generate_idcard(student_id,
                                    [env EXCEPT !.logo = "absent", !.seal = "absent"])
        IN  ( /\ env.logo # "corrupt" /\ env.seal # "corrupt"
              /\ ~CannotOpen(student.photo_path) /\ ~CannotOpen(student.qr_path) )
            => /\ got.kind = "card"
               /\ bare.kind = "card"
               /\ SelectSeq(got.card, IsRequired) = bare.card
               /\ SelectSeq(bare.card, IsOptional) = <<>>
               /\ Len(SelectSeq(got.card, IsOptional))
                    = (IF env.logo = "image" THEN 1 ELSE 0)
                        + (IF env.seal = "image" THEN 1 ELSE 0)
               /\ [i \in 1..5 |-> SelectSeq(got.card, IsLabel)[i].y]
                    = [i \in 1..5 |-> 160 + 55 * (i - 1)]

\* a card was sent that has the logo on it and no seal
C10_Witness ==
    /\ IsExport(resp)
    /\ resp.status = 200
    /\ Len(SelectSeq(resp.body, IsOptional)) = 1
    /\ SelectSeq(resp.body, IsOptional)[1].what = <<"school_logo.png">>

====
